---- MODULE Spec2Model ----
(***************************************************************************)
(* Model of the reporting scripts of graphs_learn: each report function    *)
(* filters the dataset, pivots it by week and category, aggregates, puts   *)
(* the result on the week axis 1..current_week and fills the gaps.  The    *)
(* dataframe operations the scripts call (pivot_table, cumsum, reindex,    *)
(* fillna, interpolate, groupby, sort_values, head, np.average) are        *)
(* modelled by what they compute on the values the scripts pass to them.   *)
(***************************************************************************)
EXTENDS Integers, Sequences, FiniteSets, TLC

VARIABLES df, metric_type, pc, raised, fig

vars == <<df, metric_type, pc, raised, fig>>

(***************************************************************************)
(* Bounds of the model.                                                    *)
(***************************************************************************)
MaxRows == 3
MaxWeek == 3
MaxVal == 2
MaxCategories == 17
MaxExtra == 1
MaxWide == 2

(***************************************************************************)
(* Arguments of the report functions.                                      *)
(***************************************************************************)
current_year == 2024
previous_year == current_year - 1
current_week == MaxWeek
trades == <<"EAST", "WEST">>

\* A missing cell (NaN) is the empty tuple; a number is the fraction <<n, d>> in
\* lowest terms with d > 0 (the scripts' floats, without rounding).
NaN == <<>>
notna(x) == x # NaN

RECURSIVE GCD(_, _)
GCD(a, b) == IF b = 0 THEN a ELSE GCD(b, a % b)

Abs(n) == IF n < 0 THEN 0 - n ELSE n

Frac(n, d) ==
    LET g == GCD(Abs(n), Abs(d))
        sgn == IF d < 0 THEN 0 - 1 ELSE 1
    IN <<(sgn * n) \div g, (sgn * d) \div g>>

Num(n) == <<n, 1>>
Add(a, b) == Frac(a[1] * b[2] + b[1] * a[2], a[2] * b[2])
Sub(a, b) == Frac(a[1] * b[2] - b[1] * a[2], a[2] * b[2])
Mul(a, b) == Frac(a[1] * b[1], a[2] * b[2])
Div(a, b) == Frac(a[1] * b[2], a[2] * b[1])
Less(a, b) == a[1] * b[2] < b[1] * a[2]
Leq(a, b) == a[1] * b[2] <= b[1] * a[2]
Zero == Num(0)

\* One row of the dataset: its keys and the measures given.
Row(year, week, trade, given) ==
    ("YEAR" :> year) @@ ("WEEK" :> week) @@ ("TRADE" :> trade) @@ given

Years == {current_year, previous_year}
Weeks == 1..MaxWeek
TradeValues == <<"EAST", "WEST", "OUT OF SCOPE">>
Measures == <<NaN>> \o [v \in 1..MaxVal |-> Num(v)]

Range(s) == {s[i] : i \in DOMAIN s}

\* What a report raised: nothing, or the exception and what it names.
NoError == <<>>
KeyError(col) == <<"KeyError", col>>
ZeroDivisionError == <<"ZeroDivisionError">>
TypeError == <<"TypeError">>
ValueError == <<"ValueError">>

\* df[col] raises KeyError(col) when the dataset has no such column: the first
\* column missing among those a report reads, in the order it reads them ("" when
\* the dataset has them all).
RECURSIVE MissingColumn(_, _)
MissingColumn(d, cols) ==
    IF cols = <<>> THEN ""
    ELSE IF Head(cols) \notin d.columns THEN Head(cols)
         ELSE MissingColumn(d, Tail(cols))

\* The ways to draw at most MaxRows rows from a list of size rows, each multiset
\* of rows in one row order.
IsAscending(picks) == \A i \in 1..(Len(picks) - 1) : picks[i] <= picks[i + 1]
Picks(size) ==
    UNION {{picks \in [1..n -> 1..size] : IsAscending(picks)} : n \in 0..MaxRows}

(***************************************************************************)
(* Sums that skip missing values, as the dataframe sums do.                *)
(***************************************************************************)
RECURSIVE SumNums(_)
SumNums(s) ==
    IF s = <<>> THEN Zero
    ELSE IF notna(Head(s)) THEN Add(Head(s), SumNums(Tail(s)))
         ELSE SumNums(Tail(s))

Column(rows, col) == [i \in DOMAIN rows |-> rows[i][col]]

\* The present values of series s over the labels in W, by ascending label.
RECURSIVE Present(_, _)
Present(s, W) ==
    IF W = {} THEN <<>>
    ELSE LET w == CHOOSE x \in W : \A y \in W : x <= y
         IN (IF notna(s[w]) THEN <<s[w]>> ELSE <<>>) \o Present(s, W \ {w})

\* The same over the columns of a table at one label.
RECURSIVE PresentAcross(_, _, _)
PresentAcross(data, cols, w) ==
    IF cols = {} THEN <<>>
    ELSE LET c == CHOOSE x \in cols : TRUE
         IN (IF notna(data[c][w]) THEN <<data[c][w]>> ELSE <<>>)
            \o PresentAcross(data, cols \ {c}, w)

(***************************************************************************)
(* Dataframe operations.  A table is [index, data]: data maps each column  *)
(* to a series, a series maps each label of the index to a value or NaN.   *)
(***************************************************************************)
EmptySeries == <<>>

\* Mutant: the year is not filtered on.
ScopeFilterAnyYear(rows, year, week) ==
    SelectSeq(rows, LAMBDA r : r["WEEK"] <= week /\ r["TRADE"] # "OUT OF SCOPE")

\* df[(df['YEAR'] == year) & (df['WEEK'] <= week) & (df['TRADE'] != "OUT OF SCOPE")]
ScopeFilter(rows, year, week) ==
    SelectSeq(rows, LAMBDA r : /\ r["YEAR"] = year
                               /\ r["WEEK"] <= week
                               /\ r["TRADE"] # "OUT OF SCOPE")

GroupRows(rows, week, trade) ==
    SelectSeq(rows, LAMBDA r : r["WEEK"] = week /\ r["TRADE"] = trade)

\* pivot_table(index='WEEK', values=value_col, columns='TRADE', aggfunc='sum'):
\* a cell is missing when no row has its week and trade, else the sum of the
\* present values of its rows (0 when none is present).
PivotSum(rows, value_col) ==
    LET index == {r["WEEK"] : r \in Range(rows)}
        columns == {r["TRADE"] : r \in Range(rows)}
    IN [index |-> index,
        data |-> [t \in columns |->
                    [w \in index |->
                        LET group == GroupRows(rows, w, t)
                        IN IF group = <<>> THEN NaN
                           ELSE SumNums(Column(group, value_col))]]]

TableEmpty(table) == table.index = {} \/ DOMAIN table.data = {}

\* Series.cumsum(): a missing entry stays missing and is skipped by the running sum.
CumSum(s) ==
    [w \in DOMAIN s |->
        IF notna(s[w]) THEN SumNums(Present(s, {v \in DOMAIN s : v <= w})) ELSE NaN]

\* DataFrame.cumsum(): column by column.
TableCumSum(table) ==
    [index |-> table.index,
     data |-> [t \in DOMAIN table.data |-> CumSum(table.data[t])]]

\* DataFrame.sum(axis=1): per label, the sum of the present values across columns.
RowSum(table) ==
    [w \in table.index |->
        SumNums(PresentAcross(table.data, DOMAIN table.data, w))]

\* table[name] = series
WithColumn(table, name, series) ==
    [index |-> table.index,
     data |-> [t \in DOMAIN table.data \cup {name} |->
                 IF t = name THEN series ELSE table.data[t]]]

\* table.get(name, pd.Series())
Get(table, name) ==
    IF name \in DOMAIN table.data THEN table.data[name] ELSE EmptySeries

\* series.reindex(range(1, week + 1))
Reindex(s, week) ==
    [w \in 1..week |-> IF w \in DOMAIN s THEN s[w] ELSE NaN]

\* Mutant: the gaps are filled backward, from the next known value.
FFillBackward(s) ==
    [w \in DOMAIN s |->
        IF notna(s[w]) THEN s[w]
        ELSE LET later == {v \in DOMAIN s : v > w /\ notna(s[v])}
             IN IF later = {} THEN NaN
                ELSE s[CHOOSE v \in later : \A u \in later : v <= u]]

\* series.fillna(method='ffill')
FFill(s) ==
    [w \in DOMAIN s |->
        IF notna(s[w]) THEN s[w]
        ELSE LET earlier == {v \in DOMAIN s : v < w /\ notna(s[v])}
             IN IF earlier = {} THEN NaN
                ELSE s[CHOOSE v \in earlier : \A u \in earlier : u <= v]]

\* series.fillna(value)
FillNa(s, value) == [w \in DOMAIN s |-> IF notna(s[w]) THEN s[w] ELSE value]

\* Mutant: every gap repeats the latest known value (a flat fill).
InterpolatePad(s) ==
    [w \in DOMAIN s |->
        IF notna(s[w]) THEN s[w]
        ELSE LET earlier == {v \in DOMAIN s : v < w /\ notna(s[v])}
             IN IF earlier = {} THEN NaN
                ELSE s[CHOOSE v \in earlier : \A u \in earlier : u <= v]]

\* series.interpolate(method='linear') on a series indexed 1..n: the values are
\* taken as equally spaced; a gap between two known values is filled on the
\* line through them, a gap after the last known value repeats it (the fill
\* runs forward), a gap before the first known value stays missing.
Interpolate(s) ==
    [w \in DOMAIN s |->
        IF notna(s[w]) THEN s[w]
        ELSE LET earlier == {v \in DOMAIN s : v < w /\ notna(s[v])}
                 later == {v \in DOMAIN s : v > w /\ notna(s[v])}
                 e == CHOOSE v \in earlier : \A u \in earlier : u <= v
                 l == CHOOSE v \in later : \A u \in later : v <= u
             IN IF earlier = {} THEN NaN
                ELSE IF later = {} THEN s[e]
                ELSE Add(s[e], Mul(Sub(s[l], s[e]), Frac(w - e, l - e)))]

\* The mean of the present values, missing when there is none.
Mean(values) ==
    IF values = <<>> THEN NaN ELSE Div(SumNums(values), Num(Len(values)))

PresentOf(values) == SelectSeq(values, notna)

\* pivot_table(index='WEEK', values=value_col, columns='TRADE', aggfunc='mean'):
\* a group with no present value is dropped, so are the weeks and trades left
\* without any group.
PivotMean(rows, value_col) ==
    LET cell(w, t) == Mean(PresentOf(Column(GroupRows(rows, w, t), value_col)))
        index == {r["WEEK"] : r \in {x \in Range(rows) : notna(x[value_col])}}
        columns == {r["TRADE"] : r \in {x \in Range(rows) : notna(x[value_col])}}
    IN [index |-> index,
        data |-> [t \in columns |-> [w \in index |-> cell(w, t)]]]

\* Mutant: the row total is the sum across columns instead of their mean.
RowMeanAsSum(table) ==
    [w \in table.index |-> SumNums(PresentAcross(table.data, DOMAIN table.data, w))]

\* DataFrame.mean(axis=1): per label, the mean of the present values across columns.
RowMean(table) ==
    [w \in table.index |-> Mean(PresentAcross(table.data, DOMAIN table.data, w))]

\* One subplot's series under the interpolating reports.
InterpolatedSeries(data, trade, week) == Interpolate(Reindex(Get(data, trade), week))

\* df[... & (df[col].notna()) ...] for every col of cols, on top of the scope filter
ScopeFilterNotna(rows, year, week, cols) ==
    SelectSeq(ScopeFilter(rows, year, week), LAMBDA r : \A c \in cols : notna(r[c]))

(***************************************************************************)
(* cumsums_teu_tons_contrib.plot_cumulative_comparison                     *)
(***************************************************************************)
Times(a, b) == IF notna(a) /\ notna(b) THEN Mul(a, b) ELSE NaN

\* Mutant: the column is computed anew even when the dataset has it.
WithWeightedContribRecomputed(d) ==
    [columns |-> d.columns \cup {"WEIGHTED_CONTRIB"},
     rows |-> [i \in DOMAIN d.rows |->
                 [c \in d.columns \cup {"WEIGHTED_CONTRIB"} |->
                     IF c = "WEIGHTED_CONTRIB"
                     THEN Times(d.rows[i]["TEU"], d.rows[i]["AVG CONTRIBUTION"])
                     ELSE d.rows[i][c]]]]

\* df['WEIGHTED_CONTRIB'] = df['TEU'] * df['AVG CONTRIBUTION'], when absent
WithWeightedContrib(d) ==
    IF "WEIGHTED_CONTRIB" \in d.columns THEN d
    ELSE [columns |-> d.columns \cup {"WEIGHTED_CONTRIB"},
          rows |-> [i \in DOMAIN d.rows |->
                      [c \in d.columns \cup {"WEIGHTED_CONTRIB"} |->
                          IF c = "WEIGHTED_CONTRIB"
                          THEN Times(d.rows[i]["TEU"], d.rows[i]["AVG CONTRIBUTION"])
                          ELSE d.rows[i][c]]]]

ValueCol(metric) == IF metric = "WEIGHTED" THEN "WEIGHTED_CONTRIB" ELSE metric

\* current_weekly / previous_weekly
CumWeekly(d, year, week, metric) ==
    PivotSum(ScopeFilter(d.rows, year, week), ValueCol(metric))

\* Mutant: the total is cumulated from the already cumulated trade columns.
CumTotalOfCumulated(weekly) == CumSum(RowSum(TableCumSum(weekly)))

\* Mutant: the total is the cumulated trade columns summed across the trades.
CumTotalCumulateFirst(weekly) == RowSum(TableCumSum(weekly))

\* current_total / previous_total
CumTotal(weekly) == CumSum(RowSum(weekly))

\* Mutant: the TOTAL column sums the trades of the trades list only.
CumDataTotalOfList(weekly) ==
    LET data == TableCumSum(weekly)
        listed == [index |-> weekly.index,
                   data |-> [t \in DOMAIN weekly.data \cap Range(trades) |-> weekly.data[t]]]
    IN IF "TOTAL" \notin DOMAIN data.data /\ ~TableEmpty(data)
       THEN WithColumn(data, "TOTAL", CumSum(RowSum(listed)))
       ELSE data

\* current_data / previous_data, with the TOTAL column
CumData(weekly) ==
    LET data == TableCumSum(weekly)
    IN IF "TOTAL" \notin DOMAIN data.data /\ ~TableEmpty(data)
       THEN WithColumn(data, "TOTAL", CumTotal(weekly))
       ELSE data

all_categories == trades \o <<"TOTAL">>

\* Mutant: the gaps are set to 0 without the forward fill.
CumSeriesZeroFill(data, trade, week) == FillNa(Reindex(Get(data, trade), week), Zero)

\* Mutant: the filled series is cumulated once more.
CumSeriesRecumulated(data, trade, week) ==
    CumSum(FillNa(FFill(Reindex(Get(data, trade), week)), Zero))

\* current_series / previous_series of one subplot
CumSeries(data, trade, week) == FillNa(FFill(Reindex(Get(data, trade), week)), Zero)

CumFigure(d, week, metric) ==
    [y \in Years |->
        LET data == CumData(CumWeekly(d, y, week, metric))
        IN [c \in Range(all_categories) |-> CumSeries(data, c, week)]]

\* The columns read to derive WEIGHTED_CONTRIB, and those read after.
CumDerivedFrom(d, metric) ==
    IF metric = "WEIGHTED" /\ "WEIGHTED_CONTRIB" \notin d.columns
    THEN <<"TEU", "AVG CONTRIBUTION">> ELSE <<>>

CumReads(metric) == <<"YEAR", "WEEK", "TRADE", ValueCol(metric)>>

PlotCumulativeComparison ==
    /\ pc = "start"
    /\ pc' = "plot_cumulative_comparison"
    /\ IF MissingColumn(df, CumDerivedFrom(df, metric_type)) # ""
       THEN /\ raised' = KeyError(MissingColumn(df, CumDerivedFrom(df, metric_type)))
            /\ UNCHANGED <<df, fig>>
       ELSE /\ df' = IF metric_type = "WEIGHTED" THEN WithWeightedContrib(df) ELSE df
            /\ IF MissingColumn(df', CumReads(metric_type)) # ""
               THEN /\ raised' = KeyError(MissingColumn(df', CumReads(metric_type)))
                    /\ fig' = fig
               ELSE /\ raised' = raised
                    /\ fig' = CumFigure(df', current_week, metric_type)
    /\ UNCHANGED metric_type

(***************************************************************************)
(* trade_contribution.contrib_comparison                                   *)
(***************************************************************************)
\* current_data / previous_data with the TOTAL column
ContribData(d, year, week) ==
    LET data == PivotMean(ScopeFilterNotna(d.rows, year, week, {"AVG CONTRIBUTION"}),
                          "AVG CONTRIBUTION")
    IN IF ~TableEmpty(data) THEN WithColumn(data, "TOTAL", RowMean(data)) ELSE data

ContribFigure(d, week) ==
    [y \in Years |->
        LET data == ContribData(d, y, week)
        IN [c \in Range(all_categories) |-> InterpolatedSeries(data, c, week)]]

ContribReads == <<"YEAR", "WEEK", "TRADE", "AVG CONTRIBUTION">>

ContribComparison ==
    /\ pc = "start"
    /\ pc' = "trade_contribution.contrib_comparison"
    /\ IF MissingColumn(df, ContribReads) # ""
       THEN raised' = KeyError(MissingColumn(df, ContribReads)) /\ fig' = fig
       ELSE raised' = raised /\ fig' = ContribFigure(df, current_week)
    /\ UNCHANGED <<df, metric_type>>

(***************************************************************************)
(* trade_teu_tons.contrib_comparison                                       *)
(***************************************************************************)
\* Mutant: the TOTAL column is the mean across the trades.
TeuTonsDataTotalMean(d, year, week, teus_or_tons) ==
    LET data == PivotSum(ScopeFilterNotna(d.rows, year, week, {teus_or_tons}),
                         teus_or_tons)
    IN IF ~TableEmpty(data) THEN WithColumn(data, "TOTAL", RowMean(data)) ELSE data

TeuTonsData(d, year, week, teus_or_tons) ==
    LET data == PivotSum(ScopeFilterNotna(d.rows, year, week, {teus_or_tons}),
                         teus_or_tons)
    IN IF ~TableEmpty(data) THEN WithColumn(data, "TOTAL", RowSum(data)) ELSE data

TeuTonsFigure(d, week, teus_or_tons) ==
    [y \in Years |->
        LET data == TeuTonsData(d, y, week, teus_or_tons)
        IN [c \in Range(all_categories) |-> InterpolatedSeries(data, c, week)]]

TeuTonsReads(teus_or_tons) == <<"YEAR", "WEEK", "TRADE", teus_or_tons>>

\* contrib_comparison(df, ..., teus_or_tons), called with TEU or TONS
TeuTonsContribComparison ==
    /\ pc = "start"
    /\ metric_type \in {"TEU", "TONS"}
    /\ pc' = "trade_teu_tons.contrib_comparison"
    /\ IF MissingColumn(df, TeuTonsReads(metric_type)) # ""
       THEN raised' = KeyError(MissingColumn(df, TeuTonsReads(metric_type))) /\ fig' = fig
       ELSE raised' = raised /\ fig' = TeuTonsFigure(df, current_week, metric_type)
    /\ UNCHANGED <<df, metric_type>>

(***************************************************************************)
(* trade_contribution.weighted_contrib_comparison, weighted_contrib_evol_ytd *)
(***************************************************************************)
Products(rows) ==
    [i \in DOMAIN rows |-> Mul(rows[i]["AVG CONTRIBUTION"], rows[i]["TOTAL TEU"])]

WeightSum(rows) == SumNums(Column(rows, "TOTAL TEU"))

\* np.average(x['AVG CONTRIBUTION'], weights=x['TOTAL TEU']) raises
\* ZeroDivisionError when the weights sum to zero.
AverageRaises(rows) == WeightSum(rows) = Zero

\* Mutant: the average ignores the weights.
AverageUnweighted(rows) ==
    Div(SumNums(Column(rows, "AVG CONTRIBUTION")), Num(Len(rows)))

Average(rows) == Div(SumNums(Products(rows)), WeightSum(rows))

WeightedFilter(d, year, week) ==
    ScopeFilterNotna(d.rows, year, week, {"AVG CONTRIBUTION", "TOTAL TEU"})

\* Mutant: ALL covers the trades of the trades list only.
TradeDataOfList(rows, trade) ==
    IF trade = "ALL" THEN SelectSeq(rows, LAMBDA r : r["TRADE"] \in Range(trades))
    ELSE SelectSeq(rows, LAMBDA r : r["TRADE"] = trade)

\* trade_data of calculate_weighted_avg
TradeData(rows, trade) ==
    IF trade = "ALL" THEN rows ELSE SelectSeq(rows, LAMBDA r : r["TRADE"] = trade)

WeekData(rows, week) == SelectSeq(rows, LAMBDA r : r["WEEK"] = week)

WeightedGroups == Range(trades) \cup {"ALL"}

\* Whether a call of np.average in calculate_weighted_avg raises.
CalculateRaises(rows, week) ==
    \E t \in WeightedGroups : \E w \in 1..week :
        /\ WeekData(TradeData(rows, t), w) # <<>>
        /\ AverageRaises(WeekData(TradeData(rows, t), w))

\* calculate_weighted_avg(df): the frame of the per-trade dictionaries, indexed
\* by the weeks that have a value in some column
CalculateWeightedAvg(rows, week) ==
    LET index == {w \in 1..week : WeekData(rows, w) # <<>>}
    IN [index |-> index,
        data |-> [t \in WeightedGroups |->
                    [w \in index |->
                        LET week_data == WeekData(TradeData(rows, t), w)
                        IN IF week_data # <<>> THEN Average(week_data) ELSE NaN]]]

WeightedData(d, year, week) ==
    LET data == CalculateWeightedAvg(WeightedFilter(d, year, week), week)
    IN WithColumn(data, "TOTAL", data.data["ALL"])

WeightedFigure(d, week) ==
    [y \in Years |->
        LET data == WeightedData(d, y, week)
        IN [c \in Range(all_categories) |-> InterpolatedSeries(data, c, week)]]

WeightedReads == <<"YEAR", "WEEK", "TRADE", "AVG CONTRIBUTION", "TOTAL TEU">>

WeightedContribComparison ==
    /\ pc = "start"
    /\ pc' = "weighted_contrib_comparison"
    /\ IF MissingColumn(df, WeightedReads) # ""
       THEN raised' = KeyError(MissingColumn(df, WeightedReads)) /\ fig' = fig
       ELSE IF \E y \in Years :
                  CalculateRaises(WeightedFilter(df, y, current_week), current_week)
            THEN raised' = ZeroDivisionError /\ fig' = fig
            ELSE raised' = raised /\ fig' = WeightedFigure(df, current_week)
    /\ UNCHANGED <<df, metric_type>>

\* weighted_contrib_evol_ytd: groupby(['WEEK', 'TRADE']).apply(np.average ...),
\* pivoted by week and trade
EvolGroups(rows) == {<<r["WEEK"], r["TRADE"]>> : r \in Range(rows)}

EvolRaises(rows) ==
    \E g \in EvolGroups(rows) : AverageRaises(GroupRows(rows, g[1], g[2]))

EvolPlotData(rows) ==
    LET index == {g[1] : g \in EvolGroups(rows)}
        columns == {g[2] : g \in EvolGroups(rows)}
    IN [index |-> index,
        data |-> [t \in columns |->
                    [w \in index |->
                        IF <<w, t>> \in EvolGroups(rows)
                        THEN Average(GroupRows(rows, w, t)) ELSE NaN]]]

\* On an empty selection groupby(...).apply(...) returns a DataFrame, not a
\* Series, and reset_index(name=...) raises TypeError.
WeightedContribEvolYtd ==
    /\ pc = "start"
    /\ pc' = "weighted_contrib_evol_ytd"
    /\ IF MissingColumn(df, WeightedReads) # ""
       THEN raised' = KeyError(MissingColumn(df, WeightedReads)) /\ fig' = fig
       ELSE LET filtered_df == WeightedFilter(df, current_year, current_week)
            IN IF EvolRaises(filtered_df)
               THEN raised' = ZeroDivisionError /\ fig' = fig
               ELSE IF filtered_df = <<>>
                    THEN raised' = TypeError /\ fig' = fig
                    ELSE raised' = raised /\ fig' = EvolPlotData(filtered_df)
    /\ UNCHANGED <<df, metric_type>>

(***************************************************************************)
(* teu_lost_slots.create_ytd_comparison_chart                              *)
(***************************************************************************)
\* groupby('WEEK').agg({col: 'sum'}): one entry per week that has a row
WeeklySum(rows, col) ==
    [w \in {r["WEEK"] : r \in Range(rows)} |-> SumNums(Column(WeekData(rows, w), col))]

\* Mutant: the TOTAL TEU column is left as the weekly sums.
YtdWeeklyTotalNotCumulated(d, year, week) ==
    LET ytd_df == ScopeFilter(d.rows, year, week)
    IN ("CUM_TEU_NO_LS" :> CumSum(WeeklySum(ytd_df, "TEU (WITHOUT LS)")))
       @@ ("CUM_TOTAL_TEU" :> WeeklySum(ytd_df, "TOTAL TEU"))

\* current_weekly / prior_weekly with their cumulative columns, plotted against
\* their own WEEK column
YtdWeekly(d, year, week) ==
    LET ytd_df == ScopeFilter(d.rows, year, week)
    IN ("CUM_TEU_NO_LS" :> CumSum(WeeklySum(ytd_df, "TEU (WITHOUT LS)")))
       @@ ("CUM_TOTAL_TEU" :> CumSum(WeeklySum(ytd_df, "TOTAL TEU")))

YtdReads == <<"TRADE", "YEAR", "WEEK", "TEU (WITHOUT LS)", "TOTAL TEU">>

CreateYtdComparisonChart ==
    /\ pc = "start"
    /\ pc' = "create_ytd_comparison_chart"
    /\ IF MissingColumn(df, YtdReads) # ""
       THEN raised' = KeyError(MissingColumn(df, YtdReads)) /\ fig' = fig
       ELSE raised' = raised /\ fig' = [y \in Years |-> YtdWeekly(df, y, current_week)]
    /\ UNCHANGED <<df, metric_type>>

(***************************************************************************)
(* Ranking by value: groupby(key)[col].sum(), sort_values(ascending=False) *)
(* and the first n of the ranking.                                         *)
(***************************************************************************)
Names ==
    <<"A", "B", "C", "D", "E", "F", "G", "H", "I", "J", "K", "L", "M", "N", "O",
      "P", "Q", "R", "S", "T", "U", "V", "W", "X", "Y", "Z">>

\* The place of a name in the order of the groupby keys (Other after O).
NameIndex(name) ==
    IF name = "Other" THEN 31
    ELSE 2 * (CHOOSE i \in DOMAIN Names : Names[i] = name)

\* rows.groupby(key)[col].sum(): one entry per key, ordered by key
GroupSum(rows, key, col) ==
    [k \in {r[key] : r \in Range(rows)} |->
        SumNums(Column(SelectSeq(rows, LAMBDA r : r[key] = k), col))]

\* grouped.sum(): the sum of the values of the keys
RECURSIVE SumOver(_, _)
SumOver(grouped, keys) ==
    IF keys = {} THEN Zero
    ELSE LET k == CHOOSE x \in keys : TRUE
         IN Add(grouped[k], SumOver(grouped, keys \ {k}))

\* The keys in descending order of value; equal values are kept here in key
\* order.
RECURSIVE SortDescending(_, _)
SortDescending(grouped, keys) ==
    IF keys = {} THEN <<>>
    ELSE LET first == CHOOSE k \in keys : \A j \in keys :
                          \/ Less(grouped[j], grouped[k])
                          \/ grouped[j] = grouped[k] /\ NameIndex(k) <= NameIndex(j)
         IN <<first>> \o SortDescending(grouped, keys \ {first})

\* Mutant: the first n keys in key order, whatever their values.
TopChoicesByKey(grouped, n) ==
    {{k \in DOMAIN grouped :
        Cardinality({j \in DOMAIN grouped : NameIndex(j) < NameIndex(k)}) < n}}

\* The sets of keys that the first n places of a descending ranking can hold:
\* the sort does not fix the order of equal values, so any of the keys tied at
\* place n may be among them.
TopChoices(grouped, n) ==
    LET keys == DOMAIN grouped
        above(k) == {j \in keys : Less(grouped[k], grouped[j])}
        sure == {k \in keys : Cardinality(above(k)) < n
                              /\ Cardinality({j \in keys : Leq(grouped[k], grouped[j])}) <= n}
        tied == {k \in keys \ sure : Cardinality(above(k)) < n}
    IN IF Cardinality(keys) <= n THEN {keys}
       ELSE {sure \cup some : some \in {t \in SUBSET tied : Cardinality(sure \cup t) = n}}

(***************************************************************************)
(* equipment_analysis.equipment_doughnut_single_plot                       *)
(***************************************************************************)
TopEquipment == 5

\* map_category
MapCategory(cat, top_categories) == IF cat \in top_categories THEN cat ELSE "Other"

\* df['MAPPED EQUIPMENT'] = df['EQUIPMENT'].apply(map_category)
WithMappedEquipment(rows, top_categories) ==
    [i \in DOMAIN rows |->
        rows[i] @@ ("MAPPED EQUIPMENT" :> MapCategory(rows[i]["EQUIPMENT"], top_categories))]

\* plot_data: the TOTAL TEU of each mapped category
DoughnutPlotData(rows, top_categories) ==
    GroupSum(WithMappedEquipment(rows, top_categories), "MAPPED EQUIPMENT", "TOTAL TEU")

DoughnutSelection(d, year, week) == ScopeFilterNotna(d.rows, year, week, {"TOTAL TEU"})

DoughnutReads == <<"YEAR", "WEEK", "TRADE", "TOTAL TEU", "EQUIPMENT">>

\* The doughnut of one year: plot_data and its wedges, the mapped categories in
\* descending order of value.
Doughnut(year, plot_data) ==
    [year |-> year,
     plot_data |-> plot_data,
     wedges |-> SortDescending(plot_data, DOMAIN plot_data)]

EquipmentDoughnutSinglePlot ==
    /\ pc = "start"
    /\ pc' = "equipment_doughnut_single_plot"
    /\ IF MissingColumn(df, DoughnutReads) # ""
       THEN raised' = KeyError(MissingColumn(df, DoughnutReads)) /\ fig' = fig
       ELSE /\ raised' = raised
            /\ \E year \in Years :
                 LET rows == DoughnutSelection(df, year, current_week)
                 IN \E top_categories \in
                        TopChoices(GroupSum(rows, "EQUIPMENT", "TOTAL TEU"), TopEquipment) :
                      fig' = Doughnut(year, DoughnutPlotData(rows, top_categories))
    /\ UNCHANGED <<df, metric_type>>

(***************************************************************************)
(* equipment_analysis.equipment_doughnut_multiple_trades                   *)
(***************************************************************************)
MaxPlottedTrades == 5

\* Series.unique(): the values in the order of their first appearance
RECURSIVE Unique(_)
Unique(s) ==
    IF s = <<>> THEN <<>>
    ELSE LET before == Unique(SubSeq(s, 1, Len(s) - 1))
         IN IF s[Len(s)] \in Range(before) THEN before ELSE Append(before, s[Len(s)])

\* unique_trades[:5]
PlottedTrades(rows) ==
    LET unique_trades == Unique(Column(rows, "TRADE"))
    IN SubSeq(unique_trades, 1,
              IF Len(unique_trades) < MaxPlottedTrades THEN Len(unique_trades)
              ELSE MaxPlottedTrades)

\* df[(df['YEAR'].isin([year_first, year_second])) & (df['WEEK'] <= week) & ...]
MultipleSelection(d, week) ==
    SelectSeq(d.rows, LAMBDA r : /\ r["YEAR"] \in Years
                                 /\ r["WEEK"] <= week
                                 /\ r["TRADE"] # "OUT OF SCOPE"
                                 /\ notna(r["TOTAL TEU"]))

\* trade_df of one chart, year_df for the TOTAL chart
ChartRows(rows, year, chart) ==
    SelectSeq(rows, LAMBDA r : r["YEAR"] = year /\ (chart = "TOTAL" \/ r["TRADE"] = chart))

\* Every way of giving each chart one of its possible sets of top categories.
RECURSIVE TopCombinations(_, _)
TopCombinations(choices, charts) ==
    IF charts = {} THEN {<<>>}
    ELSE LET k == CHOOSE x \in charts : TRUE
         IN {(k :> c) @@ f : c \in choices[k], f \in TopCombinations(choices, charts \ {k})}

\* The charts of both years: one per plotted trade and the TOTAL chart, each
\* with its plot_data (empty for a trade without rows in the year).
EquipmentDoughnutMultipleTrades ==
    /\ pc = "start"
    /\ pc' = "equipment_doughnut_multiple_trades"
    /\ IF MissingColumn(df, DoughnutReads) # ""
       THEN raised' = KeyError(MissingColumn(df, DoughnutReads)) /\ fig' = fig
       ELSE LET rows == MultipleSelection(df, current_week)
                unique_trades == PlottedTrades(rows)
                charts == Years \X (Range(unique_trades) \cup {"TOTAL"})
                choices == [k \in charts |->
                              TopChoices(GroupSum(ChartRows(rows, k[1], k[2]),
                                                  "EQUIPMENT", "TOTAL TEU"),
                                         TopEquipment)]
            IN /\ raised' = raised
               /\ \E top \in TopCombinations(choices, charts) :
                    fig' = [unique_trades |-> unique_trades,
                            plot_data |-> [k \in charts |->
                                DoughnutPlotData(ChartRows(rows, k[1], k[2]), top[k])]]
    /\ UNCHANGED <<df, metric_type>>

(***************************************************************************)
(* key_account_analysis.client_pareto_analysis                             *)
(***************************************************************************)
top_n == 15

\* filtered_df[...] of one subplot
ParetoTradeDf(d, year, week, trade) ==
    SelectSeq(d.rows, LAMBDA r :
        /\ r["YEAR"] = year
        /\ r["WEEK"] = week
        /\ IF trade = "TOTAL" THEN r["TRADE"] # "OUT OF SCOPE" ELSE r["TRADE"] = trade)

\* value / total * 100, a float division: 0 / 0 is missing
Percentage(value, total) ==
    IF total = Zero THEN NaN ELSE Mul(Div(value, total), Num(100))

\* client_teu after the sort, with Percentage and Cumulative Percentage; ranking
\* is the order of the clients
ClientTeu(grouped, ranking) ==
    LET total_teu == SumNums([i \in DOMAIN ranking |-> grouped[ranking[i]]])
        pct == [i \in DOMAIN ranking |-> Percentage(grouped[ranking[i]], total_teu)]
        cum == CumSum(pct)
    IN [i \in DOMAIN ranking |->
          [name |-> ranking[i],
           teu |-> grouped[ranking[i]],
           pct |-> pct[i],
           cum |-> cum[i]]]

\* Mutant: the rest starts one place too late.
OthersRowOffByOne(client_teu) ==
    [name |-> "Others",
     teu |-> SumNums([i \in 1..(Len(client_teu) - top_n - 1) |-> client_teu[i + top_n + 1].teu]),
     pct |-> SumNums([i \in 1..(Len(client_teu) - top_n - 1) |-> client_teu[i + top_n + 1].pct]),
     cum |-> Num(100)]

\* others_row: the clients after the first top_n
OthersRow(client_teu) ==
    [name |-> "Others",
     teu |-> SumNums([i \in 1..(Len(client_teu) - top_n) |-> client_teu[i + top_n].teu]),
     pct |-> SumNums([i \in 1..(Len(client_teu) - top_n) |-> client_teu[i + top_n].pct]),
     cum |-> Num(100)]

\* client_teu as plotted: the first top_n clients and the Others row when there
\* are more clients than top_n
Collapse(client_teu) ==
    IF Len(client_teu) > top_n
    THEN SubSeq(client_teu, 1, top_n) \o <<OthersRow(client_teu)>>
    ELSE client_teu

\* ax.text(...) of an empty subplot
NoData == [text |-> "No data available", client_teu |-> <<>>]

\* client_teu = trade_df.groupby('CLEAN BUSINESS PARTNER')['TOTAL TEU'].sum()
ClientGroups(trade_df) == GroupSum(trade_df, "CLEAN BUSINESS PARTNER", "TOTAL TEU")

\* One subplot, with the clients top holding the first places of the ranking.
ParetoSubplot(trade_df, grouped, top) ==
    LET ranking == SortDescending(grouped, top)
                   \o SortDescending(grouped, DOMAIN grouped \ top)
    IN IF trade_df = <<>> THEN NoData
       ELSE [text |-> "", client_teu |-> Collapse(ClientTeu(grouped, ranking))]

\* The filter reads YEAR, WEEK and TRADE; the client and the value columns are
\* read only for a subplot that has rows.
ParetoFilterReads == <<"YEAR", "WEEK", "TRADE">>
ParetoGroupReads == <<"CLEAN BUSINESS PARTNER", "TOTAL TEU">>

\* ax.set_ylim(0, max(client_teu['Percentage']) * 1.15) raises ValueError when
\* the percentages are missing, which they are when the subplot's total is zero.
YlimRaises(grouped) == SumOver(grouped, DOMAIN grouped) = Zero

ClientParetoAnalysis ==
    /\ pc = "start"
    /\ pc' = "client_pareto_analysis"
    /\ IF MissingColumn(df, ParetoFilterReads) # ""
       THEN raised' = KeyError(MissingColumn(df, ParetoFilterReads)) /\ fig' = fig
       ELSE LET trade_df == [c \in Range(all_categories) |->
                               ParetoTradeDf(df, current_year, current_week, c)]
                with_rows == {c \in Range(all_categories) : trade_df[c] # <<>>}
            IN IF with_rows # {} /\ MissingColumn(df, ParetoGroupReads) # ""
               THEN raised' = KeyError(MissingColumn(df, ParetoGroupReads)) /\ fig' = fig
               ELSE LET grouped == [c \in Range(all_categories) |->
                                      IF c \in with_rows THEN ClientGroups(trade_df[c])
                                      ELSE <<>>]
                        choices == [c \in Range(all_categories) |->
                                      TopChoices(grouped[c], top_n)]
                    IN IF \E c \in with_rows : YlimRaises(grouped[c])
                       THEN raised' = ValueError /\ fig' = fig
                       ELSE /\ raised' = raised
                            /\ \E top \in [Range(all_categories) -> UNION Range(choices)] :
                                 /\ \A c \in Range(all_categories) : top[c] \in choices[c]
                                 /\ fig' = [c \in Range(all_categories) |->
                                              ParetoSubplot(trade_df[c], grouped[c], top[c])]
    /\ UNCHANGED <<df, metric_type>>

(***************************************************************************)
(* The datasets the reports are run on.  A family of datasets has the key  *)
(* columns and the measures its reports read; a dataset is at most MaxRows *)
(* rows of the family's pool.                                              *)
(***************************************************************************)
RowPool(cells) ==
    LET T == Len(TradeValues)
        C == Len(cells)
        year(k) == IF (k - 1) \div (MaxWeek * T * C) = 0 THEN current_year
                   ELSE previous_year
        week(k) == (((k - 1) \div (T * C)) % MaxWeek) + 1
        trade(k) == TradeValues[(((k - 1) \div C) % T) + 1]
    IN [k \in 1..(2 * MaxWeek * T * C) |->
          Row(year(k), week(k), trade(k), cells[((k - 1) % C) + 1])]

Dataset(pool, picks) ==
    [columns |-> DOMAIN pool[1], rows |-> [i \in DOMAIN picks |-> pool[picks[i]]]]

\* Volume datasets: one volume column, TEU or TONS.
VolumeCells(metric) == [i \in DOMAIN Measures |-> (metric :> Measures[i])]
VolumeRows == [m \in {"TEU", "TONS"} |-> RowPool(VolumeCells(m))]

InitVolume ==
    /\ pc = "start"
    /\ raised = NoError
    /\ metric_type \in {"TEU", "TONS"}
    /\ \E picks \in Picks(Len(VolumeRows[metric_type])) :
          df = Dataset(VolumeRows[metric_type], picks)
    /\ fig = <<>>

\* Contribution datasets: TEU, AVG CONTRIBUTION (a margin, which may be
\* negative), the weight TOTAL TEU (which may be zero) and TEU (WITHOUT LS).
Cell(teu, contribution, total_teu, teu_without_ls) ==
    ("TEU" :> Num(teu)) @@ ("AVG CONTRIBUTION" :> Num(contribution))
    @@ ("TOTAL TEU" :> Num(total_teu)) @@ ("TEU (WITHOUT LS)" :> Num(teu_without_ls))

ContributionCells == <<Cell(1, 1, 1, 1), Cell(2, 3, 2, 1), Cell(1, 0 - 1, 0, 0)>>
ContributionRows == RowPool(ContributionCells)

InitContribution ==
    /\ pc = "start"
    /\ raised = NoError
    /\ metric_type = "WEIGHTED"
    /\ \E picks \in Picks(Len(ContributionRows)) :
          df = Dataset(ContributionRows, picks)
    /\ fig = <<>>

\* Category datasets: EQUIPMENT, CLEAN BUSINESS PARTNER and TOTAL TEU.  The
\* first `size` categories have one row each in the report's week, of
\* descending value; at most MaxExtra more rows fall on the first category and
\* on the categories next after the first TopEquipment and the first top_n.
CategoryRow(week, trade, i, value) ==
    Row(current_year, week, trade,
        ("EQUIPMENT" :> Names[i]) @@ ("CLEAN BUSINESS PARTNER" :> Names[i])
        @@ ("TOTAL TEU" :> value))

BaseRows(size) ==
    [i \in 1..size |-> CategoryRow(current_week, "EAST", i, Num(MaxCategories + 1 - i))]

ExtraRows ==
    LET T == Len(TradeValues)
        M == Len(Measures)
        category == <<1, TopEquipment + 1, top_n + 1>>
    IN [k \in 1..(3 * T * M) |->
          CategoryRow(current_week,
                      TradeValues[(((k - 1) \div M) % T) + 1],
                      category[((k - 1) \div (T * M)) + 1],
                      Measures[((k - 1) % M) + 1])]

ExtraPicks ==
    UNION {{picks \in [1..n -> DOMAIN ExtraRows] : IsAscending(picks)} : n \in 0..MaxExtra}

InitCategories ==
    /\ pc = "start"
    /\ raised = NoError
    /\ metric_type = "TEU"
    /\ \E size \in 0..MaxCategories : \E picks \in ExtraPicks :
          df = [columns |-> DOMAIN ExtraRows[1],
                rows |-> BaseRows(size) \o [i \in DOMAIN picks |-> ExtraRows[picks[i]]]]
    /\ fig = <<>>

\* Wide datasets: rows with every column of the source file, in datasets of at
\* most MaxWide rows.  They hold what the other families leave out: a trade
\* that is in scope but not in the trades list, a week after the cutoff, a
\* WEIGHTED_CONTRIB column computed beforehand, and a column that is absent.
SourceColumns ==
    {"YEAR", "WEEK", "TRADE", "TEU", "TONS", "AVG CONTRIBUTION", "TOTAL TEU",
     "TEU (WITHOUT LS)", "EQUIPMENT", "CLEAN BUSINESS PARTNER"}

WideCell(volume, contribution, total_teu, name) ==
    ("TEU" :> Num(volume)) @@ ("TONS" :> Num(volume))
    @@ ("AVG CONTRIBUTION" :> Num(contribution)) @@ ("TOTAL TEU" :> Num(total_teu))
    @@ ("TEU (WITHOUT LS)" :> Num(1)) @@ ("EQUIPMENT" :> name)
    @@ ("CLEAN BUSINESS PARTNER" :> name) @@ ("WEIGHTED_CONTRIB" :> Num(5))

WideCells == <<WideCell(1, 1, 1, "A"), WideCell(2, 3, 2, "B")>>
WideWeeks == <<1, current_week + 1>>
WideTrades == <<"EAST", "NORTH">>

WideRows ==
    LET C == Len(WideCells)
        T == Len(WideTrades)
    IN [k \in 1..(Len(WideWeeks) * T * C) |->
          Row(current_year,
              WideWeeks[((k - 1) \div (T * C)) + 1],
              WideTrades[(((k - 1) \div C) % T) + 1],
              WideCells[((k - 1) % C) + 1])]

WidePicks ==
    UNION {{picks \in [1..n -> DOMAIN WideRows] : IsAscending(picks)} : n \in 0..MaxWide}

\* The columns a wide dataset has: those of the source file, with or without
\* WEIGHTED_CONTRIB, and at most one of them absent.
WideColumns ==
    LET with == {SourceColumns, SourceColumns \cup {"WEIGHTED_CONTRIB"}}
    IN with \cup {columns \ {c} : columns \in with, c \in SourceColumns}

InitWide ==
    /\ pc = "start"
    /\ raised = NoError
    /\ metric_type \in {"TEU", "TONS", "WEIGHTED"}
    /\ \E columns \in WideColumns : \E picks \in WidePicks :
          df = [columns |-> columns,
                rows |-> [i \in DOMAIN picks |-> [c \in columns |-> WideRows[picks[i]][c]]]]
    /\ fig = <<>>

\* Trade datasets: one row for each of the first `size` trades of a rotation
\* of TradeNames, the first `split` of them in the current year and the rest
\* in the previous year, all of one equipment type.
MaxTrades == 6

TradeNames == <<"EAST", "WEST", "NORTH", "SOUTH", "ASIA", "GULF", "BALTIC">>

TradeRow(i, first, split) ==
    Row(IF i <= split THEN current_year ELSE previous_year, 1,
        TradeNames[((first + i - 2) % MaxTrades) + 1],
        ("EQUIPMENT" :> Names[1]) @@ ("CLEAN BUSINESS PARTNER" :> Names[1])
        @@ ("TOTAL TEU" :> Num(i)))

InitTrades ==
    /\ pc = "start"
    /\ raised = NoError
    /\ metric_type = "TEU"
    /\ \E size \in 1..MaxTrades : \E first \in 1..MaxTrades : \E split \in 0..size :
          df = [columns |-> DOMAIN ExtraRows[1],
                rows |-> [i \in 1..size |-> TradeRow(i, first, split)]]
    /\ fig = <<>>

\* Lost-slots datasets: at most MaxLost rows with TOTAL TEU and
\* TEU (WITHOUT LS), either of which may be missing.
MaxLost == 2

LostCells ==
    [k \in 1..(Len(Measures) * Len(Measures)) |->
        ("TOTAL TEU" :> Measures[((k - 1) \div Len(Measures)) + 1])
        @@ ("TEU (WITHOUT LS)" :> Measures[((k - 1) % Len(Measures)) + 1])]

LostTrades == <<"EAST", "OUT OF SCOPE">>

LostRows ==
    LET T == Len(LostTrades)
        C == Len(LostCells)
        year(k) == IF (k - 1) \div (MaxWeek * T * C) = 0 THEN current_year
                   ELSE previous_year
    IN [k \in 1..(2 * MaxWeek * T * C) |->
          Row(year(k), (((k - 1) \div (T * C)) % MaxWeek) + 1,
              LostTrades[(((k - 1) \div C) % T) + 1], LostCells[((k - 1) % C) + 1])]

LostPicks ==
    UNION {{picks \in [1..n -> DOMAIN LostRows] : IsAscending(picks)} : n \in 1..MaxLost}

InitLostSlots ==
    /\ pc = "start"
    /\ raised = NoError
    /\ metric_type = "TEU"
    /\ \E picks \in LostPicks : df = Dataset(LostRows, picks)
    /\ fig = <<>>

Init ==
    \/ InitVolume \/ InitContribution \/ InitCategories \/ InitWide
    \/ InitTrades \/ InitLostSlots

Next ==
    \/ PlotCumulativeComparison
    \/ ContribComparison
    \/ TeuTonsContribComparison
    \/ WeightedContribComparison
    \/ WeightedContribEvolYtd
    \/ CreateYtdComparisonChart
    \/ EquipmentDoughnutSinglePlot
    \/ EquipmentDoughnutMultipleTrades
    \/ ClientParetoAnalysis

Spec == Init /\ [][Next]_vars

(***************************************************************************)
(* What the claims are stated in: sums over the records of the dataset.    *)
(***************************************************************************)
\* The value a record contributes to a metric (nothing when it is missing).
MetricValue(r, metric) ==
    LET v == IF metric # "WEIGHTED" THEN r[metric]
             ELSE IF "WEIGHTED_CONTRIB" \in DOMAIN r THEN r["WEIGHTED_CONTRIB"]
             ELSE Times(r["TEU"], r["AVG CONTRIBUTION"])
    IN IF notna(v) THEN v ELSE Zero

RECURSIVE SumRecords(_, _, _)
SumRecords(rows, I, metric) ==
    IF I = {} THEN Zero
    ELSE LET i == CHOOSE x \in I : TRUE
         IN Add(MetricValue(rows[i], metric), SumRecords(rows, I \ {i}, metric))

\* The records of a year that a category covers: one trade, or for TOTAL every
\* trade in scope.
InCategory(r, year, category) ==
    /\ r["YEAR"] = year
    /\ r["TRADE"] # "OUT OF SCOPE"
    /\ category # "TOTAL" => r["TRADE"] = category

RecordsUpTo(year, category, w) ==
    {i \in DOMAIN df.rows : /\ InCategory(df.rows[i], year, category)
                            /\ 1 <= df.rows[i]["WEEK"]
                            /\ df.rows[i]["WEEK"] <= w}

RecordsAt(year, category, w) ==
    {i \in DOMAIN df.rows : /\ InCategory(df.rows[i], year, category)
                            /\ df.rows[i]["WEEK"] = w}

CumulativeDone == pc = "plot_cumulative_comparison" /\ raised = NoError

\* C1: with metric TEU or TONS, the plotted cumulative value of every trade of
\* the trades list at every week w of 1..current_week is, for each year, the sum
\* of the metric over the records of that year and trade with 1 <= WEEK <= w.
C1_CumulativeIsSumOfRecords ==
    (CumulativeDone /\ metric_type \in {"TEU", "TONS"}) =>
        \A y \in Years : \A t \in Range(trades) : \A w \in 1..current_week :
            fig[y][t][w] = SumRecords(df.rows, RecordsUpTo(y, t, w), metric_type)

\* C1 witness: EAST has 2 in week 1 and 1 in week 2, WEST has 2 in week 1, and
\* the current-year curves are EAST = [2, 3, 3] and WEST = [2, 2, 2].
C1_Witness ==
    /\ CumulativeDone /\ metric_type \in {"TEU", "TONS"}
    /\ Len(df.rows) = 3
    /\ \A w \in 1..2 : RecordsAt(current_year, "EAST", w) # {}
    /\ RecordsAt(current_year, "WEST", 1) # {}
    /\ fig[current_year]["EAST"] = <<Num(2), Num(3), Num(3)>>
    /\ fig[current_year]["WEST"] = <<Num(2), Num(2), Num(2)>>

\* C2: TOTAL is the per-week sums across trades, cumulated once: at every week
\* w it is the sum of the metric over the in-scope records of the year with
\* WEEK <= w.
C2_TotalAggregateThenCumulate ==
    CumulativeDone =>
        \A y \in Years : \A w \in 1..current_week :
            fig[y]["TOTAL"][w] =
                SumRecords(df.rows, RecordsUpTo(y, "TOTAL", w), metric_type)

\* C2 witness: the EAST/WEST scenario, whose TOTAL is [4, 5, 5].
C2_Witness ==
    /\ CumulativeDone
    /\ fig[current_year]["EAST"] = <<Num(2), Num(3), Num(3)>>
    /\ fig[current_year]["WEST"] = <<Num(2), Num(2), Num(2)>>
    /\ fig[current_year]["TOTAL"] = <<Num(4), Num(5), Num(5)>>

\* C8: in the cumulative report a week without a record of the category takes
\* the plotted value of the latest earlier week that has one, and 0 when there
\* is none; a trade with no selected record is 0 at every week.
C8_ForwardFillThenZero ==
    CumulativeDone =>
        \A y \in Years : \A c \in Range(all_categories) : \A w \in 1..current_week :
            RecordsAt(y, c, w) = {} =>
                LET earlier == {v \in 1..(w - 1) : RecordsAt(y, c, v) # {}}
                IN fig[y][c][w] =
                     IF earlier = {} THEN Zero
                     ELSE fig[y][c][CHOOSE v \in earlier : \A u \in earlier : u <= v]

\* C8 witness: EAST has its only records in week 2, so week 1 is 0 and week 3
\* repeats week 2; WEST has no record and is 0 throughout.
C8_Witness ==
    /\ CumulativeDone
    /\ RecordsAt(current_year, "EAST", 1) = {}
    /\ RecordsAt(current_year, "EAST", 3) = {}
    /\ RecordsUpTo(current_year, "WEST", current_week) = {}
    /\ fig[current_year]["EAST"] = <<Zero, Num(2), Num(2)>>
    /\ fig[current_year]["WEST"] = <<Zero, Zero, Zero>>

\* The metric summed over the records of one week of a category.
WeekSum(y, c, w) == SumRecords(df.rows, RecordsAt(y, c, w), metric_type)

\* C3 as stated: every cumulative series is non-decreasing along the weeks,
\* whatever the dataset.
C3_NonDecreasingForEveryDataset ==
    CumulativeDone =>
        \A y \in Years : \A c \in Range(all_categories) :
            \A w \in 1..(current_week - 1) : Leq(fig[y][c][w], fig[y][c][w + 1])

\* C3 amended: a cumulative series does not decrease from week w to week w+1
\* when the metric summed over the category's records of week w+1 is not
\* negative; forward filling never lowers it.
C3_NonDecreasingUnlessNegativeWeek ==
    CumulativeDone =>
        \A y \in Years : \A c \in Range(all_categories) :
            \A w \in 1..(current_week - 1) :
                Leq(Zero, WeekSum(y, c, w + 1)) => Leq(fig[y][c][w], fig[y][c][w + 1])

\* C3 witness: EAST has records in weeks 1 and 3 only, both positive: the curve
\* is flat over the filled week 2 and rises at week 3.
C3_Witness ==
    /\ CumulativeDone
    /\ RecordsAt(current_year, "EAST", 1) # {}
    /\ RecordsAt(current_year, "EAST", 2) = {}
    /\ RecordsAt(current_year, "EAST", 3) # {}
    /\ fig[current_year]["EAST"][1] = fig[current_year]["EAST"][2]
    /\ Less(fig[current_year]["EAST"][2], fig[current_year]["EAST"][3])
    /\ Less(Zero, fig[current_year]["EAST"][1])

(***************************************************************************)
(* The interpolating reports: a week of a category has a known value when  *)
(* a selected record of the category falls in it.                          *)
(***************************************************************************)
InterpolatingReports ==
    {"trade_contribution.contrib_comparison", "trade_teu_tons.contrib_comparison",
     "weighted_contrib_comparison"}

InterpolatedDone == pc \in InterpolatingReports /\ raised = NoError

\* The columns a record must have present to be selected by the report that ran.
ValueColumns ==
    CASE pc = "trade_contribution.contrib_comparison" -> {"AVG CONTRIBUTION"}
      [] pc = "trade_teu_tons.contrib_comparison" -> {metric_type}
      [] pc = "weighted_contrib_comparison" -> {"AVG CONTRIBUTION", "TOTAL TEU"}
      [] OTHER -> {}

Known(y, c, w) ==
    \E i \in RecordsAt(y, c, w) : \A col \in ValueColumns : notna(df.rows[i][col])

KnownBefore(y, c, w) == {v \in 1..(w - 1) : Known(y, c, v)}
KnownAfter(y, c, w) == {v \in (w + 1)..current_week : Known(y, c, v)}
Latest(W) == CHOOSE v \in W : \A u \in W : u <= v
Earliest(W) == CHOOSE v \in W : \A u \in W : v <= u

\* C5 as stated: under the interpolating fill a week with no known value and
\* with no earlier or no later known week stays missing.
C5_BoundaryGapStaysMissing ==
    InterpolatedDone =>
        \A y \in Years : \A c \in Range(all_categories) : \A w \in 1..current_week :
            (/\ ~Known(y, c, w)
             /\ (KnownBefore(y, c, w) = {} \/ KnownAfter(y, c, w) = {}))
                => fig[y][c][w] = NaN

WeightedReports == {"weighted_contrib_comparison", "weighted_contrib_evol_ytd"}

\* C6 as stated: a non-empty group whose TOTAL TEU weights sum to zero raises
\* no fault in the weighted reports.
C6_ZeroWeightGroupRaisesNothing ==
    pc \in WeightedReports => raised # ZeroDivisionError

\* C7: under the interpolating fill a week without a known value that lies
\* between known weeks is on the line through the nearest earlier and the
\* nearest later known values, in proportion to the week distance.
C7_InteriorGapIsLinear ==
    InterpolatedDone =>
        \A y \in Years : \A c \in Range(all_categories) : \A w \in 1..current_week :
            (~Known(y, c, w) /\ KnownBefore(y, c, w) # {} /\ KnownAfter(y, c, w) # {})
                => LET e == Latest(KnownBefore(y, c, w))
                       l == Earliest(KnownAfter(y, c, w))
                   IN fig[y][c][w] =
                        Add(fig[y][c][e],
                            Mul(Sub(fig[y][c][l], fig[y][c][e]), Frac(w - e, l - e)))

\* C7 witness: the contribution of EAST is 1 in week 1 and 3 in week 3, week 2
\* has no record and is plotted at 2 (the 100, 140 -> 120 scenario).
C7_Witness ==
    /\ pc = "trade_contribution.contrib_comparison"
    /\ raised = NoError
    /\ ~Known(current_year, "EAST", 2)
    /\ fig[current_year]["EAST"] = <<Num(1), Num(2), Num(3)>>

\* The series of a category before the fill, under the report that ran.
PreFill(y, c) ==
    LET data ==
          CASE pc = "plot_cumulative_comparison" ->
                 CumData(CumWeekly(df, y, current_week, metric_type))
            [] pc = "trade_contribution.contrib_comparison" ->
                 ContribData(df, y, current_week)
            [] pc = "trade_teu_tons.contrib_comparison" ->
                 TeuTonsData(df, y, current_week, metric_type)
            [] pc = "weighted_contrib_comparison" ->
                 WeightedData(df, y, current_week)
    IN Reindex(Get(data, c), current_week)

\* C9: both fills keep the value of every week that had one before the fill.
C9_FillKeepsKnownValues ==
    (CumulativeDone \/ InterpolatedDone) =>
        \A y \in Years : \A c \in Range(all_categories) : \A w \in 1..current_week :
            notna(PreFill(y, c)[w]) => fig[y][c][w] = PreFill(y, c)[w]

\* C9 witness: weekly TEU/TONS of EAST, 2 in week 1 and 1 in week 3; the fill
\* puts 3/2 in week 2 and leaves weeks 1 and 3 as they were.
C9_Witness ==
    /\ pc = "trade_teu_tons.contrib_comparison"
    /\ raised = NoError
    /\ PreFill(current_year, "EAST") = <<Num(2), NaN, Num(1)>>
    /\ fig[current_year]["EAST"] = <<Num(2), Frac(3, 2), Num(1)>>

ComparisonReports == InterpolatingReports \cup
    {"plot_cumulative_comparison", "create_ytd_comparison_chart"}

\* C4 as stated: in every current-against-previous-year comparison both series
\* are on the weeks 1..current_week exactly, whichever weeks have records.
C4_WeekDomainIsComplete ==
    (pc \in ComparisonReports /\ raised = NoError) =>
        \A y \in Years : \A c \in DOMAIN fig[y] :
            DOMAIN fig[y][c] = 1..current_week

\* The records the doughnut of a year is drawn from.
DoughnutRecords(year) ==
    {i \in DOMAIN df.rows : /\ df.rows[i]["YEAR"] = year
                            /\ df.rows[i]["WEEK"] <= current_week
                            /\ df.rows[i]["TRADE"] # "OUT OF SCOPE"
                            /\ notna(df.rows[i]["TOTAL TEU"])}

RECURSIVE WedgesTotal(_, _)
WedgesTotal(plot_data, keys) ==
    IF keys = {} THEN Zero
    ELSE LET k == CHOOSE x \in keys : TRUE
         IN Add(plot_data[k], WedgesTotal(plot_data, keys \ {k}))

BarsTotal(client_teu) == SumNums([i \in DOMAIN client_teu |-> client_teu[i].teu])

\* C10: the values of a doughnut (the first 5 equipment types and Other) add up
\* to the TOTAL TEU of all the records the doughnut selects, and the values of
\* a Pareto subplot that has data (the first 15 clients and Others) add up to
\* the TOTAL TEU of all the records of the subplot's trade and week.
C10_TopNConservesTotal ==
    /\ (pc = "equipment_doughnut_single_plot" /\ raised = NoError) =>
          WedgesTotal(fig.plot_data, DOMAIN fig.plot_data)
              = SumRecords(df.rows, DoughnutRecords(fig.year), "TOTAL TEU")
    /\ (pc = "client_pareto_analysis" /\ raised = NoError) =>
          \A c \in Range(all_categories) :
              fig[c] # NoData =>
                  BarsTotal(fig[c].client_teu)
                      = SumRecords(df.rows, RecordsAt(current_year, c, current_week),
                                   "TOTAL TEU")

\* A Pareto subplot of more than 15 clients, whose Others row holds volume.
C10_Witness ==
    /\ pc = "client_pareto_analysis"
    /\ raised = NoError
    /\ Len(fig["TOTAL"].client_teu) = top_n + 1
    /\ fig["TOTAL"].client_teu[top_n + 1].name = "Others"
    /\ Less(Num(1), fig["TOTAL"].client_teu[top_n + 1].teu)
    /\ fig["EAST"] # fig["TOTAL"]

(***************************************************************************)
(* Errors: a report that was run either produced its figure or raised.     *)
(***************************************************************************)
IsKeyError(e) == Len(e) = 2 /\ e[1] = "KeyError"

ParetoDone == pc = "client_pareto_analysis" /\ ~IsKeyError(raised)

\* C11 as stated: for every non-empty selection of a trade, a grand total of
\* zero included, the Pareto is drawn and the cumulative percentage of its last
\* plotted category is 100.
C11_LastCumulativeIs100 ==
    ParetoDone =>
        /\ raised = NoError
        /\ \A c \in Range(all_categories) :
              fig[c] # NoData =>
                  fig[c].client_teu[Len(fig[c].client_teu)].cum = Num(100)

(***************************************************************************)
(* The ranking, stated over the records: the categories of a selection and *)
(* the TOTAL TEU each of them sums to.                                     *)
(***************************************************************************)
Categories(I, key) == {df.rows[i][key] : i \in I}

CategoryValue(I, key, k) ==
    SumRecords(df.rows, {i \in I : df.rows[i][key] = k}, "TOTAL TEU")

RECURSIVE CollapsedValue(_, _, _)
CollapsedValue(I, key, collapsed) ==
    IF collapsed = {} THEN Zero
    ELSE LET k == CHOOSE x \in collapsed : TRUE
         IN Add(CategoryValue(I, key, k), CollapsedValue(I, key, collapsed \ {k}))

Smaller(a, b) == IF a <= b THEN a ELSE b

\* The retained categories are as many as the rank allows, hold their own
\* values, and none is below a collapsed one.
RetainsLargest(I, key, retained, n) ==
    /\ retained \subseteq Categories(I, key)
    /\ Cardinality(retained) = Smaller(n, Cardinality(Categories(I, key)))
    /\ \A r \in retained : \A k \in Categories(I, key) \ retained :
          Leq(CategoryValue(I, key, k), CategoryValue(I, key, r))

DoughnutRanked ==
    LET I == DoughnutRecords(fig.year)
        retained == DOMAIN fig.plot_data \ {"Other"}
        collapsed == Categories(I, "EQUIPMENT") \ retained
    IN /\ RetainsLargest(I, "EQUIPMENT", retained, TopEquipment)
       /\ \A r \in retained : fig.plot_data[r] = CategoryValue(I, "EQUIPMENT", r)
       /\ "Other" \in DOMAIN fig.plot_data <=> collapsed # {}
       /\ collapsed # {} =>
             fig.plot_data["Other"] = CollapsedValue(I, "EQUIPMENT", collapsed)
       /\ Range(fig.wedges) = DOMAIN fig.plot_data
       /\ \A i \in 1..(Len(fig.wedges) - 1) :
             Leq(fig.plot_data[fig.wedges[i + 1]], fig.plot_data[fig.wedges[i]])

ParetoRanked(c) ==
    LET I == RecordsAt(current_year, c, current_week)
        key == "CLEAN BUSINESS PARTNER"
        bars == fig[c].client_teu
        kept == Smaller(top_n, Len(bars))
        retained == {bars[i].name : i \in 1..kept}
        collapsed == Categories(I, key) \ retained
    IN /\ RetainsLargest(I, key, retained, top_n)
       /\ \A i \in 1..kept : bars[i].teu = CategoryValue(I, key, bars[i].name)
       /\ \A i \in 1..(kept - 1) : Leq(bars[i + 1].teu, bars[i].teu)
       /\ Len(bars) = kept + (IF collapsed # {} THEN 1 ELSE 0)
       /\ collapsed # {} =>
             /\ bars[top_n + 1].name = "Others"
             /\ bars[top_n + 1].teu = CollapsedValue(I, key, collapsed)

\* C12: the doughnut keeps the 5 equipment types and the Pareto the 15 clients
\* of largest TOTAL TEU, in descending order of value; no kept category is
\* below a collapsed one; every other category is in the one Other / Others
\* entry, which exists only when there are more categories than kept.
C12_TopNRetainsLargest ==
    /\ (pc = "equipment_doughnut_single_plot" /\ raised = NoError) => DoughnutRanked
    /\ (pc = "client_pareto_analysis" /\ raised = NoError) =>
          \A c \in Range(all_categories) : fig[c] # NoData => ParetoRanked(c)

\* C12 witness: six equipment types A..F of values 17..12 in the doughnut of
\* the current year: A..E are kept in this order and F alone is Other, 12.
C12_Witness ==
    /\ pc = "equipment_doughnut_single_plot"
    /\ raised = NoError
    /\ fig.year = current_year
    /\ Cardinality(Categories(DoughnutRecords(current_year), "EQUIPMENT")) = TopEquipment + 1
    /\ fig.wedges = <<"A", "B", "C", "D", "E", "Other">>
    /\ fig.plot_data["Other"] = Num(12)

(***************************************************************************)
(* The scope of a report: the records of the requested year, up to the     *)
(* week cutoff, of a trade in scope, with the value field present.         *)
(***************************************************************************)
InScope(year, value_col) ==
    {i \in DOMAIN df.rows : /\ df.rows[i]["YEAR"] = year
                            /\ df.rows[i]["WEEK"] <= current_week
                            /\ df.rows[i]["TRADE"] # "OUT OF SCOPE"
                            /\ notna(df.rows[i][value_col])}

CumulativeInScope ==
    \A y \in Years :
        fig[y]["TOTAL"][current_week]
            = SumRecords(df.rows, InScope(y, ValueCol(metric_type)), metric_type)

DoughnutInScope ==
    WedgesTotal(fig.plot_data, DOMAIN fig.plot_data)
        = SumRecords(df.rows, InScope(fig.year, "TOTAL TEU"), "TOTAL TEU")

ParetoInScope ==
    IF InScope(current_year, "TOTAL TEU") = {} THEN fig["TOTAL"] = NoData
    ELSE /\ fig["TOTAL"] # NoData
         /\ BarsTotal(fig["TOTAL"].client_teu)
               = SumRecords(df.rows, InScope(current_year, "TOTAL TEU"), "TOTAL TEU")

\* C13 as stated: what a report shows in total is the value field summed over
\* exactly the records of the requested year with WEEK <= the cutoff, TRADE not
\* "OUT OF SCOPE" and the value present -- in the cumulative report, in the
\* equipment doughnut and in the client Pareto.
C13_ReportsAggregateTheScope ==
    /\ CumulativeDone => CumulativeInScope
    /\ (pc = "equipment_doughnut_single_plot" /\ raised = NoError) => DoughnutInScope
    /\ (pc = "client_pareto_analysis" /\ raised = NoError
        /\ "TOTAL TEU" \in df.columns) => ParetoInScope

(***************************************************************************)
(* What a report does to the caller's dataset.                             *)
(***************************************************************************)
\* The dataset d with the column WEIGHTED_CONTRIB = TEU x AVG CONTRIBUTION added.
Derived(d) ==
    [columns |-> d.columns \cup {"WEIGHTED_CONTRIB"},
     rows |-> [i \in DOMAIN d.rows |->
                 d.rows[i] @@ ("WEIGHTED_CONTRIB" :>
                                  Times(d.rows[i]["TEU"], d.rows[i]["AVG CONTRIBUTION"]))]]

DerivesColumn ==
    /\ pc' = "plot_cumulative_comparison"
    /\ metric_type = "WEIGHTED"
    /\ "WEIGHTED_CONTRIB" \notin df.columns
    /\ {"TEU", "AVG CONTRIBUTION"} \subseteq df.columns

\* The series a second run of the cumulative report gives on the dataset d
\* that the first run left.
SecondRun(d) == CumFigure(d, current_week, metric_type)

\* C14: a report changes the dataset only when it is the cumulative report
\* with metric WEIGHTED on a dataset without WEIGHTED_CONTRIB, and then by
\* adding that column, TEU x AVG CONTRIBUTION, and nothing else; a column that
\* is there is kept as it is; a second run of the cumulative report on the
\* dataset the first run left gives the same series.
C14_DatasetUnchangedButDerivedColumn ==
    [][/\ DerivesColumn => df' = Derived(df)
       /\ ~DerivesColumn => df' = df
       /\ (pc' = "plot_cumulative_comparison" /\ raised' = NoError) => SecondRun(df') = fig']_vars

\* C14 witness: the cumulative report with metric WEIGHTED has run on a dataset
\* whose WEIGHTED_CONTRIB was there, 5 where TEU x AVG CONTRIBUTION is 1: the
\* series is that of the 5.
C14_Witness ==
    /\ CumulativeDone
    /\ metric_type = "WEIGHTED"
    /\ Len(df.rows) = 1
    /\ {"TEU", "AVG CONTRIBUTION", "WEIGHTED_CONTRIB"} \subseteq df.columns
    /\ Times(df.rows[1]["TEU"], df.rows[1]["AVG CONTRIBUTION"]) = Num(1)
    /\ df.rows[1]["WEIGHTED_CONTRIB"] = Num(5)
    /\ fig[current_year]["EAST"] = <<Num(5), Num(5), Num(5)>>

(***************************************************************************)
(* trade_contribution.contrib_comparison against the definition of MEAN:   *)
(* the values of the weekly table before the fill.                         *)
(***************************************************************************)
ContribDone == pc = "trade_contribution.contrib_comparison" /\ raised = NoError

\* The trades of the dataset that are in scope, in the trades list or not.
DataTrades == {df.rows[i]["TRADE"] : i \in DOMAIN df.rows} \ {"OUT OF SCOPE"}

\* The selected records of a trade in a week: those with AVG CONTRIBUTION present.
ContribRecords(y, t, w) ==
    {i \in RecordsAt(y, t, w) : notna(df.rows[i]["AVG CONTRIBUTION"])}

\* The unweighted mean of AVG CONTRIBUTION over the selected records.
TradeMean(y, t, w) ==
    IF ContribRecords(y, t, w) = {} THEN NaN
    ELSE Div(SumRecords(df.rows, ContribRecords(y, t, w), "AVG CONTRIBUTION"),
             Num(Cardinality(ContribRecords(y, t, w))))

RECURSIVE SumOfMeans(_, _, _)
SumOfMeans(y, T, w) ==
    IF T = {} THEN Zero
    ELSE LET t == CHOOSE x \in T : TRUE
         IN Add(TradeMean(y, t, w), SumOfMeans(y, T \ {t}, w))

\* The unweighted mean of the week values of the trades that have one.
MeanOfMeans(y, w) ==
    LET T == {t \in DataTrades : notna(TradeMean(y, t, w))}
    IN IF T = {} THEN NaN ELSE Div(SumOfMeans(y, T, w), Num(Cardinality(T)))

\* C15: in trade_contribution.contrib_comparison the week value of a trade is
\* the unweighted mean of AVG CONTRIBUTION over the selected records of the
\* trade and week, missing when there is none, and TOTAL[week] is the
\* unweighted mean of the week values of the trades that have one, not their
\* sum; a value that is present is plotted as it is.
C15_ContribIsUnweightedMean ==
    ContribDone =>
        \A y \in Years : \A w \in 1..current_week :
            /\ \A t \in Range(trades) :
                  /\ PreFill(y, t)[w] = TradeMean(y, t, w)
                  /\ notna(TradeMean(y, t, w)) => fig[y][t][w] = TradeMean(y, t, w)
            /\ PreFill(y, "TOTAL")[w] = MeanOfMeans(y, w)
            /\ notna(MeanOfMeans(y, w)) => fig[y]["TOTAL"][w] = MeanOfMeans(y, w)

\* C15 witness: in week 1 EAST has contributions 1 and 3 and WEST has -1; EAST
\* is plotted at 2, WEST at -1 and TOTAL at 1/2, which is neither the sum of
\* the two means nor the mean over the three records.
C15_Witness ==
    /\ ContribDone
    /\ Cardinality(ContribRecords(current_year, "EAST", 1)) = 2
    /\ fig[current_year]["EAST"][1] = Num(2)
    /\ fig[current_year]["WEST"][1] = Num(0 - 1)
    /\ fig[current_year]["TOTAL"][1] = Frac(1, 2)

(***************************************************************************)
(* The weighted reports against the definition of WEIGHTED_MEAN.           *)
(***************************************************************************)
WeightedDone == pc = "weighted_contrib_comparison" /\ raised = NoError

\* The selected records of a category in a week: those with AVG CONTRIBUTION
\* and TOTAL TEU present.
WeightedRecords(y, c, w) ==
    {i \in RecordsAt(y, c, w) :
        notna(df.rows[i]["AVG CONTRIBUTION"]) /\ notna(df.rows[i]["TOTAL TEU"])}

RECURSIVE SumProducts(_)
SumProducts(I) ==
    IF I = {} THEN Zero
    ELSE LET i == CHOOSE x \in I : TRUE
         IN Add(Mul(df.rows[i]["AVG CONTRIBUTION"], df.rows[i]["TOTAL TEU"]),
                SumProducts(I \ {i}))

WeightOf(I) == SumRecords(df.rows, I, "TOTAL TEU")

\* sum(AVG CONTRIBUTION[i] x TOTAL TEU[i]) / sum(TOTAL TEU[i]) over the records I
WeightedMean(I) ==
    IF I = {} \/ WeightOf(I) = Zero THEN NaN ELSE Div(SumProducts(I), WeightOf(I))

RECURSIVE SumMeanTimesWeight(_, _, _)
SumMeanTimesWeight(y, T, w) ==
    IF T = {} THEN Zero
    ELSE LET t == CHOOSE x \in T : TRUE
         IN Add(Mul(WeightedMean(WeightedRecords(y, t, w)),
                    WeightOf(WeightedRecords(y, t, w))),
                SumMeanTimesWeight(y, T \ {t}, w))

RECURSIVE SumWeights(_, _, _)
SumWeights(y, T, w) ==
    IF T = {} THEN Zero
    ELSE LET t == CHOOSE x \in T : TRUE
         IN Add(WeightOf(WeightedRecords(y, t, w)), SumWeights(y, T \ {t}, w))

\* The weighted mean across the week values of the trades T: each trade's
\* weighted mean weighs its TOTAL TEU sum.
AcrossTrades(y, T, w) ==
    LET S == {t \in T : notna(WeightedMean(WeightedRecords(y, t, w)))}
    IN IF S = {} \/ SumWeights(y, S, w) = Zero THEN NaN
       ELSE Div(SumMeanTimesWeight(y, S, w), SumWeights(y, S, w))

EvolDone == pc = "weighted_contrib_evol_ytd" /\ raised = NoError

\* The value weighted_contrib_evol_ytd plots for a trade in a week.
EvolValue(t, w) ==
    IF t \in DOMAIN fig.data /\ w \in fig.index THEN fig.data[t][w] ELSE NaN

\* C17: in weighted_contrib_evol_ytd and weighted_contrib_comparison the value
\* of a (trade, week) group with a non-zero weight sum is
\* sum(AVG CONTRIBUTION x TOTAL TEU) / sum(TOTAL TEU) over the selected records
\* of the trade and week, and a (trade, week) without a selected record has
\* no value; in the comparison this is the value before the fill.
C17_WeightedMeanOverSelectedRecords ==
    /\ EvolDone =>
          \A t \in DataTrades : \A w \in 1..current_week :
              LET I == WeightedRecords(current_year, t, w)
              IN /\ (I # {} /\ WeightOf(I) # Zero)
                       => EvolValue(t, w) = Div(SumProducts(I), WeightOf(I))
                 /\ I = {} => EvolValue(t, w) = NaN
    /\ WeightedDone =>
          \A y \in Years : \A t \in Range(trades) : \A w \in 1..current_week :
              LET I == WeightedRecords(y, t, w)
              IN /\ (I # {} /\ WeightOf(I) # Zero)
                       => /\ PreFill(y, t)[w] = Div(SumProducts(I), WeightOf(I))
                          /\ fig[y][t][w] = Div(SumProducts(I), WeightOf(I))
                 /\ I = {} => PreFill(y, t)[w] = NaN

\* C17 witness: weighted_contrib_evol_ytd where EAST has in week 1 the
\* contributions 1 and 3 with weights 1 and 2, plotted at 7/3, and WEST has a
\* record in another week only, so that its week 1 is missing.
C17_Witness ==
    /\ EvolDone
    /\ Cardinality(WeightedRecords(current_year, "EAST", 1)) = 2
    /\ EvolValue("EAST", 1) = Frac(7, 3)
    /\ "WEST" \in DOMAIN fig.data
    /\ EvolValue("WEST", 1) = NaN

(***************************************************************************)
(* Independence of the row order: the report that ran, on the same rows in *)
(* another order.                                                          *)
(***************************************************************************)
\* Every order of a dataset of at most MaxRows rows; of a longer one the
\* reversal, the rotation by one row and the exchange of the first two rows.
Reorderings(n) ==
    IF n <= MaxRows
    THEN {p \in [1..n -> 1..n] : \A i, j \in 1..n : p[i] = p[j] => i = j}
    ELSE {[i \in 1..n |-> n + 1 - i],
          [i \in 1..n |-> (i % n) + 1],
          [i \in 1..n |-> IF i = 1 THEN 2 ELSE IF i = 2 THEN 1 ELSE i]}

Reordered(p) ==
    [columns |-> df.columns, rows |-> [i \in DOMAIN df.rows |-> df.rows[p[i]]]]

\* The doughnut plotted is one that the rows of d give.
DoughnutOf(d) ==
    LET rows == DoughnutSelection(d, fig.year, current_week)
    IN \E top_categories \in TopChoices(GroupSum(rows, "EQUIPMENT", "TOTAL TEU"), TopEquipment) :
          fig = Doughnut(fig.year, DoughnutPlotData(rows, top_categories))

\* The doughnuts of the trades and of TOTAL are those that the rows of d give.
MultipleOf(d) ==
    LET rows == MultipleSelection(d, current_week)
        charts == Years \X (Range(PlottedTrades(rows)) \cup {"TOTAL"})
    IN /\ DOMAIN fig.plot_data = charts
       /\ \A k \in charts :
            LET chart_rows == ChartRows(rows, k[1], k[2])
            IN \E top_categories \in
                   TopChoices(GroupSum(chart_rows, "EQUIPMENT", "TOTAL TEU"), TopEquipment) :
                 fig.plot_data[k] = DoughnutPlotData(chart_rows, top_categories)

\* Every Pareto subplot plotted is one that the rows of d give.
ParetoOf(d) ==
    \A c \in Range(all_categories) :
        LET trade_df == ParetoTradeDf(d, current_year, current_week, c)
            grouped == IF trade_df # <<>> THEN ClientGroups(trade_df) ELSE <<>>
        IN \E top \in TopChoices(grouped, top_n) :
              fig[c] = ParetoSubplot(trade_df, grouped, top)

\* The figure of the report that ran is the one the dataset d gives.
SameResults(d) ==
    CASE pc = "plot_cumulative_comparison" ->
           fig = CumFigure(d, current_week, metric_type)
      [] pc = "trade_contribution.contrib_comparison" ->
           fig = ContribFigure(d, current_week)
      [] pc = "trade_teu_tons.contrib_comparison" ->
           fig = TeuTonsFigure(d, current_week, metric_type)
      [] pc = "weighted_contrib_comparison" ->
           fig = WeightedFigure(d, current_week)
      [] pc = "weighted_contrib_evol_ytd" ->
           fig = EvolPlotData(WeightedFilter(d, current_year, current_week))
      [] pc = "create_ytd_comparison_chart" ->
           fig = [y \in Years |-> YtdWeekly(d, y, current_week)]
      [] pc = "equipment_doughnut_single_plot" -> DoughnutOf(d)
      [] pc = "equipment_doughnut_multiple_trades" -> MultipleOf(d)
      [] pc = "client_pareto_analysis" -> ParetoOf(d)

\* C18 as stated: the results of every report (weekly sums, means and weighted means,
\* cumulative series, TOTAL series, the top-N and Other split with its values)
\* do not depend on the order of the rows: the same rows in another order give
\* the same figure.
C18_ResultsIndependentOfRowOrder ==
    (pc # "start" /\ raised = NoError) =>
        \A p \in Reorderings(Len(df.rows)) : SameResults(Reordered(p))

(***************************************************************************)
(* Faults.                                                                 *)
(***************************************************************************)
\* No record of the dataset is in the scope of a report: none is of a
\* requested year, up to the week cutoff and of a trade in scope.
EmptySelection ==
    \A i \in DOMAIN df.rows :
        \/ df.rows[i]["YEAR"] \notin Years
        \/ df.rows[i]["WEEK"] > current_week
        \/ df.rows[i]["TRADE"] = "OUT OF SCOPE"

\* C19 as stated: a report whose scope filter selects no record completes; no
\* report raises because its selection is empty (a dataset that lacks a column
\* is another fault).
C19_EmptySelectionCompletes ==
    (pc # "start" /\ ~IsKeyError(raised) /\ EmptySelection) => raised = NoError

\* The columns that the report that ran requires of the dataset.
Required ==
    CASE pc = "plot_cumulative_comparison" ->
           Range(CumReads(metric_type)) \cup Range(CumDerivedFrom(df, metric_type))
      [] pc = "trade_contribution.contrib_comparison" -> Range(ContribReads)
      [] pc = "trade_teu_tons.contrib_comparison" -> Range(TeuTonsReads(metric_type))
      [] pc \in WeightedReports -> Range(WeightedReads)
      [] pc = "create_ytd_comparison_chart" -> Range(YtdReads)
      [] pc \in {"equipment_doughnut_single_plot", "equipment_doughnut_multiple_trades"} ->
           Range(DoughnutReads)
      [] pc = "client_pareto_analysis" ->
           Range(ParetoFilterReads) \cup Range(ParetoGroupReads)
      [] OTHER -> {}

\* C20 as stated: a report run on a dataset that lacks a column it requires
\* ends in a fault that names a missing column, whatever the records and the
\* requested year and week; it never completes with a result.
C20_MissingColumnIsFatal ==
    (pc # "start" /\ Required \ df.columns # {}) =>
        \E c \in Required \ df.columns : raised = KeyError(c)

(***************************************************************************)
(* The two orders of the cumulative TOTAL: the weekly table summed across  *)
(* the trades and then cumulated, which is what is plotted, against the    *)
(* cumulated table summed across the trades.                               *)
(***************************************************************************)
\* current_data.sum(axis=1) before the TOTAL column is added: each trade
\* cumulated first, then the cumulated values summed across the trades.
CumulateThenSum(y) ==
    RowSum(TableCumSum(CumWeekly(df, y, current_week, metric_type)))

RECURSIVE SumCumulated(_, _, _)
SumCumulated(y, T, w) ==
    IF T = {} THEN Zero
    ELSE LET t == CHOOSE x \in T : TRUE
         IN Add(SumRecords(df.rows, RecordsUpTo(y, t, w), metric_type),
                SumCumulated(y, T \ {t}, w))

\* The trades without a record in week w.
MissingAt(y, w) == {t \in DataTrades : RecordsAt(y, t, w) = {}}

\* C21: the two orders can diverge.  At a week that has records, the plotted
\* TOTAL (sum across trades, then cumulate) is the cumulate-then-sum value plus
\* what the trades without a record in that week have cumulated before it; the
\* two differ only when some trade has records before the week and none in it.
C21_OrdersDivergeOnNonAlignedWeeks ==
    CumulativeDone =>
        \A y \in Years : \A w \in DOMAIN CumulateThenSum(y) :
            /\ fig[y]["TOTAL"][w]
                 = Add(CumulateThenSum(y)[w], SumCumulated(y, MissingAt(y, w), w))
            /\ fig[y]["TOTAL"][w] # CumulateThenSum(y)[w]
                 => \E t \in MissingAt(y, w) : RecordsUpTo(y, t, w) # {}

\* C21 witness: EAST has 2 in week 1 and 1 in week 2, WEST has 2 in week 1 and
\* no record in week 2; at week 2 TOTAL is 5 and cumulate-then-sum gives 3.
C21_Witness ==
    /\ CumulativeDone
    /\ RecordsAt(current_year, "WEST", 2) = {}
    /\ 2 \in DOMAIN CumulateThenSum(current_year)
    /\ fig[current_year]["TOTAL"][2] = Num(5)
    /\ CumulateThenSum(current_year)[2] = Num(3)

(***************************************************************************)
(* The plotted TOTAL against the plotted trades.                           *)
(***************************************************************************)
RECURSIVE SumPlotted(_, _, _)
SumPlotted(y, T, w) ==
    IF T = {} THEN Zero
    ELSE LET t == CHOOSE x \in T : TRUE
         IN Add(fig[y][t][w], SumPlotted(y, T \ {t}, w))

TeuTonsDone == pc = "trade_teu_tons.contrib_comparison" /\ raised = NoError

\* The trades of the trades list that have a plotted value at week w.
PlottedAt(y, w) == {t \in Range(trades) : notna(fig[y][t][w])}

\* The metric summed over the records of week w of the trades T.
RECURSIVE SumWeek(_, _, _)
SumWeek(y, T, w) ==
    IF T = {} THEN Zero
    ELSE LET t == CHOOSE x \in T : TRUE
         IN Add(WeekSum(y, t, w), SumWeek(y, T \ {t}, w))

MultipleDone == pc = "equipment_doughnut_multiple_trades" /\ raised = NoError

\* The grand total a doughnut shows.
GrandTotal(year, chart) ==
    SumOver(fig.plot_data[<<year, chart>>], DOMAIN fig.plot_data[<<year, chart>>])

RECURSIVE SumGrandTotals(_, _)
SumGrandTotals(year, charts) ==
    IF charts = {} THEN Zero
    ELSE LET c == CHOOSE x \in charts : TRUE
         IN Add(GrandTotal(year, c), SumGrandTotals(year, charts \ {c}))

\* C24 as stated: in equipment_doughnut_multiple_trades the grand total of the
\* TOTAL doughnut of a year is the sum of the grand totals of the year's
\* doughnuts of the trades: every in-scope record of the year is in exactly one
\* of them.
C24_TotalDoughnutIsSumOfTrades ==
    MultipleDone =>
        \A y \in Years :
            /\ GrandTotal(y, "TOTAL") = SumGrandTotals(y, Range(fig.unique_trades))
            /\ \A i \in InScope(y, "TOTAL TEU") :
                  df.rows[i]["TRADE"] \in Range(fig.unique_trades)

(***************************************************************************)
(* teu_lost_slots.create_ytd_comparison_chart: the gap between the two     *)
(* cumulative curves.                                                      *)
(***************************************************************************)
YtdDone == pc = "create_ytd_comparison_chart" /\ raised = NoError

\* At every plotted week of both years the cumulative TOTAL TEU is at least
\* the cumulative TEU (WITHOUT LS).
GapNeverNegative ==
    \A y \in Years : \A w \in DOMAIN fig[y]["CUM_TOTAL_TEU"] :
        Leq(fig[y]["CUM_TEU_NO_LS"][w], fig[y]["CUM_TOTAL_TEU"][w])

\* A field of a record, a missing one counting as 0.
FieldOrZero(r, col) == IF notna(r[col]) THEN r[col] ELSE Zero

\* C25 as stated: if every record that has both fields present has
\* TOTAL TEU >= TEU (WITHOUT LS), the gap between the cumulative curves is
\* never negative, whichever fields are missing on the other records.
C25_GapNeverNegativeWithMissingFields ==
    (/\ YtdDone
     /\ \A i \in DOMAIN df.rows :
           (notna(df.rows[i]["TOTAL TEU"]) /\ notna(df.rows[i]["TEU (WITHOUT LS)"]))
              => Leq(df.rows[i]["TEU (WITHOUT LS)"], df.rows[i]["TOTAL TEU"]))
        => GapNeverNegative

\* C25, amended: if every selected record has TOTAL TEU >= TEU (WITHOUT LS),
\* a missing field counting as 0, the gap between the cumulative curves is
\* never negative at any plotted week of either year.
C25_GapNeverNegativeCountingMissingAsZero ==
    (/\ YtdDone
     /\ \A y \in Years : \A i \in RecordsUpTo(y, "TOTAL", current_week) :
           Leq(FieldOrZero(df.rows[i], "TEU (WITHOUT LS)"),
               FieldOrZero(df.rows[i], "TOTAL TEU")))
        => GapNeverNegative

\* C25 witness: a record of week 1 with TOTAL TEU 2 and TEU (WITHOUT LS) 1 and
\* a record of week 2 with TOTAL TEU 1 and TEU (WITHOUT LS) missing; the
\* curves are 2, 3 and 1, 1.
C25_Witness ==
    /\ YtdDone
    /\ \A i \in DOMAIN df.rows :
          Leq(FieldOrZero(df.rows[i], "TEU (WITHOUT LS)"),
              FieldOrZero(df.rows[i], "TOTAL TEU"))
    /\ \E i \in DOMAIN df.rows : ~notna(df.rows[i]["TEU (WITHOUT LS)"])
    /\ DOMAIN fig[current_year]["CUM_TOTAL_TEU"] = {1, 2}
    /\ fig[current_year]["CUM_TOTAL_TEU"][2] = Num(3)
    /\ fig[current_year]["CUM_TEU_NO_LS"][2] = Num(1)

====
